---------------------------- MODULE Spec2Model ----------------------------
(***************************************************************************)
(* A model of lib/BaseCounter.js: the configuration resolver (constructor  *)
(* and getOptionValue), the HTTP accessor (getFromAPI), the paginated      *)
(* lister (getRepos / getAllRepos) and the repo aggregator (get).          *)
(*                                                                         *)
(* JavaScript values are records [kind, s, n, items]: kind is the runtime  *)
(* kind of the value, s its text, n its number and items its elements.     *)
(* Every asynchronous function is cut at its awaits: one action per piece  *)
(* of code that runs between two suspension points.                        *)
(***************************************************************************)
EXTENDS Integers, Sequences, FiniteSets, TLC

VARIABLES
    options,      \* the object handed to the constructor
    counter,      \* the fields of the counter instance (empty before construction)
    platform,     \* what the code-hosting platform holds and how it answers
    pc,           \* per get() call: where the call is suspended
    request,      \* per call: the page number of the request in flight
    fromDate,     \* per call: getRepos' fromDate argument (<<>> for null)
    frames,       \* per call: the pages held by the suspended getRepos frames
    ret,          \* per call: the value the innermost finished getRepos returned
    repos,        \* per call: get()'s local `repos`
    i,            \* per call: get()'s loop index (0-based, as in the code)
    usersProjectsCount, \* per call: get()'s local counter
    usersCommitsCount,  \* per call: get()'s local counter
    result,       \* per call: the object get() resolved with
    fetched,      \* per call: history of the page numbers requested
    counted,      \* per call: history of the repos handed to the strategy
    apiPage,      \* per call: history, the page of the last settled request
    apiResult     \* per call: history, what getFromAPI returned for it

vars == <<options, counter, platform, pc, request, fromDate, frames, ret, repos,
          i, usersProjectsCount, usersCommitsCount, result, fetched, counted,
          apiPage, apiResult>>

---------------------------------------------------------------------------
(* Bounds of the model *)

\* most keys a user-options object holds
MaxKeys == 2
\* longest listing whose per-repo outcomes are enumerated exhaustively
MaxLen == 3
\* largest commit count the per-repo strategy answers
MaxCount == 5
\* largest minCommits a user configures
MaxMin == 3
\* most full pages the platform holds
MaxFull == 2
\* most pages a run against an endless listing is followed through
MaxPage == 6

---------------------------------------------------------------------------
(* JavaScript values *)

JsString(x) == [kind |-> "string", s |-> x, n |-> 0, items |-> <<>>]
JsNumber(x) == [kind |-> "number", s |-> "", n |-> x, items |-> <<>>]
JsArray(x) == [kind |-> "array", s |-> "", n |-> 0, items |-> x]
JsObject(x) == [kind |-> "object", s |-> x, n |-> 0, items |-> <<>>]
JsBoolean(x) == [kind |-> "boolean", s |-> "", n |-> IF x THEN 1 ELSE 0, items |-> <<>>]
JsNull == [kind |-> "null", s |-> "", n |-> 0, items |-> <<>>]
JsUndefined == [kind |-> "undefined", s |-> "", n |-> 0, items |-> <<>>]
JsFalse == JsBoolean(FALSE)

\* ToBoolean: what `!v` and `v || x` test
Truthy(v) ==
    CASE v.kind \in {"array", "object"} -> TRUE
      [] v.kind = "string" -> v.s # ""
      [] v.kind = "number" -> v.n # 0
      [] v.kind = "boolean" -> v.n = 1
      [] OTHER -> FALSE

\* the typeof operator: arrays, plain objects and null are all "object"
TypeOf(v) ==
    IF v.kind \in {"array", "object", "null"} THEN "object" ELSE v.kind

---------------------------------------------------------------------------
(* Configuration resolver *)

getDefaultOptions ==
    [username |-> JsString(""),
     accessToken |-> JsString(""),
     userEmailAddresses |-> JsArray(<<>>),
     userNames |-> JsArray(<<>>),
     fromDate |-> JsString(""),
     untilDate |-> JsString(""),
     minCommits |-> JsNumber(1)]

\* variant: the user's value is taken whatever its type
getOptionValueNoTypeCheck(opts, option, defaultValue) ==
    IF option \in DOMAIN opts THEN opts[option] ELSE defaultValue

getOptionValue(opts, option, defaultValue) ==
    IF option \in DOMAIN opts /\ TypeOf(opts[option]) = TypeOf(defaultValue)
    THEN opts[option]
    ELSE defaultValue

DefaultItemsPerPage == 100

\* the fields the constructor sets that are not user configurable
GeneralSettings ==
    [itemsPerPage |-> JsNumber(DefaultItemsPerPage),
     reposEndpoint |-> JsString(""),
     reposParams |-> [f \in {} |-> 0],
     repoUpdatedDateField |-> JsString("")]

\* new BaseCounter(opts): the fields of the instance after the constructor
BaseCounter(opts) ==
    LET defaultOptions == getDefaultOptions
    IN  [f \in DOMAIN defaultOptions \cup DOMAIN GeneralSettings |->
            IF f \in DOMAIN GeneralSettings
            THEN GeneralSettings[f]
            ELSE getOptionValue(opts, f, defaultOptions[f])]

NotConstructed == [f \in {} |-> 0]

---------------------------------------------------------------------------
(* The platform: the listing endpoint and the per-repo counting strategy *)

Calls == {1, 2}

\* index of the platform's first page, the initial reposParams.page
FirstPage == 1

DateStrings == {"2019-01-01", "2019-06-01", "2019-12-01"}
Oldest == "2019-01-01"
Newest == "2019-12-01"

\* new Date(s).getTime(), in days since the epoch
DateParse(s) ==
    CASE s = "2019-01-01" -> 17897
      [] s = "2019-06-01" -> 18048
      [] s = "2019-12-01" -> 18231

\* String.prototype.trim on the strings the model uses
Trim(s) == IF s \in {" ", "  "} THEN "" ELSE s

FaultModes == {"network", "http", "null", "empty"}

Min(a, b) == IF a < b THEN a ELSE b

\* number of pages the platform's listing fills (the last may be short)
NumPages(size) == (size + DefaultItemsPerPage - 1) \div DefaultItemsPerPage

\* the platform's k-th page (k = 1 is the first): a list of repos
ListingPage(k) ==
    LET lo == (k - 1) * DefaultItemsPerPage + 1
        hi == Min(k * DefaultItemsPerPage, platform.size)
    IN  IF k >= 1 /\ lo <= hi THEN [j \in 1..(hi - lo + 1) |-> lo + j - 1] ELSE <<>>

\* repo[repoUpdatedDateField]: the last-updated date string of a repo
RepoUpdated(repo) ==
    IF repo = platform.size \/ repo % DefaultItemsPerPage = 0
    THEN platform.lastUpdated[NumPages(repo)]
    ELSE platform.innerUpdated

\* what the per-repo strategy's promise settles with for a repo
StrategyOutcome(repo) == platform.outcomes[((repo - 1) % MaxLen) + 1]

\* how the transport settles a GET of the listing with params.page = p
Transport(p) ==
    LET k == p - FirstPage + 1
    IN  IF platform.faultPage = k
        THEN CASE platform.faultMode = "network" ->
                    [ok |-> FALSE, data |-> JsNull]
               [] platform.faultMode = "http" ->
                    [ok |-> FALSE, data |-> JsObject("Server Error")]
               [] platform.faultMode = "null" ->
                    [ok |-> TRUE, data |-> JsNull]
               [] platform.faultMode = "empty" ->
                    [ok |-> TRUE, data |-> JsString("")]
        ELSE [ok |-> TRUE, data |-> JsArray(ListingPage(k))]

---------------------------------------------------------------------------
(* HTTP accessor *)

\* variant: a falsy body is returned as it is
getFromAPINoSentinel(settled) ==
    IF settled.ok THEN settled.data ELSE JsFalse

\* the value getFromAPI resolves with once axios settled as `settled`; the
\* line it logs on a failure is no part of the state
getFromAPI(settled) ==
    IF settled.ok
    THEN IF Truthy(settled.data) THEN settled.data ELSE JsFalse
    ELSE JsFalse

---------------------------------------------------------------------------
(* Initial states: a constructed, specialised counter and a platform *)

\* what a per-platform counter overrides after the base constructor ran
Specialised(base) ==
    [base EXCEPT !.reposEndpoint = JsString("https://platform.example/repos"),
                 !.reposParams = [page |-> FirstPage, sort |-> "updated"],
                 !.repoUpdatedDateField = JsString("updated_at")]

TailLens == {0, 37}

ListingSizes == {f * DefaultItemsPerPage + t : f \in 0..MaxFull, t \in TailLens}

NoCommits == [rejects |-> FALSE, count |-> 0]

\* the strategy's promise rejects
Rejected == [rejects |-> TRUE, count |-> 0]

\* the outcomes of a listing longer than MaxLen repeat this pattern
PatternOutcomes == [j \in 1..MaxLen |-> [rejects |-> FALSE, count |-> j % (MaxCount + 1)]]

AllNewest == [p \in 1..(MaxFull + 1) |-> Newest]

IdleCalls ==
    /\ pc = [c \in Calls |-> "idle"]
    /\ request = [c \in Calls |-> 0]
    /\ fromDate = [c \in Calls |-> <<>>]
    /\ frames = [c \in Calls |-> <<>>]
    /\ ret = [c \in Calls |-> JsUndefined]
    /\ repos = [c \in Calls |-> JsUndefined]
    /\ apiPage = [c \in Calls |-> 0]
    /\ apiResult = [c \in Calls |-> JsUndefined]
    /\ i = [c \in Calls |-> 0]
    /\ usersProjectsCount = [c \in Calls |-> 0]
    /\ usersCommitsCount = [c \in Calls |-> 0]
    /\ result = [c \in Calls |-> <<>>]
    /\ fetched = [c \in Calls |-> <<>>]
    /\ counted = [c \in Calls |-> <<>>]

\* what the strategy's promise fulfils with
Counts == {[rejects |-> FALSE, count |-> c] : c \in 0..MaxCount}

\* short listings with every combination of commit counts and minCommits
InitAggregation ==
    /\ \E m \in 1..MaxMin : options = [minCommits |-> JsNumber(m)]
    /\ \E size \in 0..MaxLen :
       \E o \in [1..MaxLen -> Counts] :
          /\ \A j \in 1..MaxLen : j > size => o[j] = NoCommits
          /\ platform = [size |-> size, outcomes |-> o, lastUpdated |-> AllNewest,
                         innerUpdated |-> Newest, faultPage |-> 0,
                         faultMode |-> "network"]

\* short listings for one of whose repos the strategy's promise rejects
InitRejecting ==
    /\ options = [minCommits |-> JsNumber(MaxMin)]
    /\ \E size \in 1..MaxLen :
       \E j \in 1..size :
          platform = [size |-> size,
                      outcomes |-> [PatternOutcomes EXCEPT ![j] = Rejected],
                      lastUpdated |-> AllNewest, innerUpdated |-> Newest,
                      faultPage |-> 0, faultMode |-> "network"]

\* listings of several pages with every combination of last-updated dates
\* against every fromDate; under a blank fromDate every page ends on the
\* oldest date
InitListing ==
    \E f \in {"", " "} \cup DateStrings :
    \E size \in ListingSizes :
    \E last \in [1..(MaxFull + 1) -> DateStrings] :
    \E inner \in {Oldest, Newest} :
       /\ \A k \in 1..(MaxFull + 1) : k > NumPages(size) => last[k] = Newest
       /\ f \notin DateStrings =>
             \A k \in 1..(MaxFull + 1) : k <= NumPages(size) => last[k] = Oldest
       /\ options = [fromDate |-> JsString(f)]
       /\ platform = [size |-> size, outcomes |-> PatternOutcomes,
                      lastUpdated |-> last, innerUpdated |-> inner,
                      faultPage |-> 0, faultMode |-> "network"]

\* listings one of whose page fetches fails
InitFaults ==
    /\ \E f \in {"", Oldest} :
          options = [username |-> JsString("user"), fromDate |-> JsString(f)]
    /\ \E size \in ListingSizes :
       \E k \in 1..(MaxFull + 1) :
       \E mode \in FaultModes :
          platform = [size |-> size, outcomes |-> PatternOutcomes,
                      lastUpdated |-> AllNewest, innerUpdated |-> Newest,
                      faultPage |-> k, faultMode |-> mode]

Init ==
    /\ InitAggregation \/ InitRejecting \/ InitListing \/ InitFaults
    /\ counter = Specialised(BaseCounter(options))
    /\ IdleCalls

---------------------------------------------------------------------------
(* Construction: new BaseCounter(options) for a range of options objects *)

UserKeys ==
    DOMAIN getDefaultOptions
        \cup {"itemsPerPage", "reposEndpoint", "reposParams", "repoUpdatedDateField",
              "verbose"}

UserValues ==
    {JsString(""), JsString("2019-06-01"), JsNumber(0), JsNumber(5),
     JsArray(<<"me@example.com">>), JsObject("{}"), JsBoolean(TRUE), JsNull,
     JsUndefined}

\* a platform nobody calls
NoPlatform ==
    [size |-> 0, outcomes |-> [j \in 1..MaxLen |-> NoCommits],
     lastUpdated |-> AllNewest, innerUpdated |-> Newest, faultPage |-> 0,
     faultMode |-> "network"]

InitConfig ==
    /\ \E keys \in SUBSET UserKeys :
          /\ Cardinality(keys) <= MaxKeys
          /\ options \in [keys -> UserValues]
    /\ counter = NotConstructed
    /\ platform = NoPlatform
    /\ IdleCalls

\* the constructor runs on the options object
Constructor ==
    /\ counter = NotConstructed
    /\ counter' = BaseCounter(options)
    /\ UNCHANGED <<options, platform, pc, request, fromDate, frames, ret, repos, i,
                   usersProjectsCount, usersCommitsCount, result, fetched,
                   counted, apiPage, apiResult>>

NextConfig == Constructor

SpecConfig == InitConfig /\ [][NextConfig]_vars

---------------------------------------------------------------------------
(* Paginated lister and repo aggregator *)

\* variant: the length is taken one short
LengthOneShort(v) == IF v.kind = "array" THEN Len(v.items) - 1 ELSE -1

\* v.length: the number of elements of an array, -1 for undefined
Length(v) == IF v.kind = "array" THEN Len(v.items) ELSE -1

\* getAllRepos: the Date built from this.fromDate, <<>> when it is blank
FromDateObj(c) ==
    IF counter.fromDate.kind # "null" /\ Trim(counter.fromDate.s) # ""
    THEN <<DateParse(counter.fromDate.s)>>
    ELSE <<>>

\* get() is called: getAllRepos, getRepos and getFromAPI run up to the
\* request of the first page
Get(c) ==
    /\ pc[c] = "idle"
    /\ counter # NotConstructed
    /\ IF c = 1 THEN TRUE ELSE pc[c - 1] \in {"done", "raised"}
    /\ fromDate' = [fromDate EXCEPT ![c] = FromDateObj(c)]
    /\ request' = [request EXCEPT ![c] = counter.reposParams.page]
    /\ fetched' = [fetched EXCEPT ![c] = Append(@, counter.reposParams.page)]
    /\ pc' = [pc EXCEPT ![c] = "fetch"]
    /\ UNCHANGED <<options, counter, platform, frames, ret, repos, i,
                   usersProjectsCount, usersCommitsCount, result, counted,
                   apiPage, apiResult>>

\* variant: the falsy result is not tested
FailedNever(value) == FALSE

\* line 117: if (!repos)
Failed(value) == ~Truthy(value)

\* variant: a last repo dated exactly fromDate cuts off too
CutoffOrEqual(value, from) ==
    /\ Length(value) > 0
    /\ from # <<>>
    /\ DateParse(RepoUpdated(value.items[Length(value)])) <= from[1]

\* variant: a missing fromDate is replaced by a recent date
CutoffAgainstNewest(value, from) ==
    /\ Length(value) > 0
    /\ DateParse(RepoUpdated(value.items[Length(value)]))
          < (IF from # <<>> THEN from[1] ELSE DateParse(Newest))

\* lines 123-135: the last repo of the page was updated before fromDate
Cutoff(value, from) ==
    /\ Length(value) > 0
    /\ from # <<>>
    /\ DateParse(RepoUpdated(value.items[Length(value)])) < from[1]

\* variant: every page leads to a further request
NextPageAlways(value) == TRUE

\* line 138: this response has the max items
NextPage(value) == Length(value) = counter.itemsPerPage.n

\* the request settles: getFromAPI returns and getRepos runs on to its next
\* request or to its return
GetReposSettled(c) ==
    /\ pc[c] = "fetch"
    /\ LET value == getFromAPI(Transport(request[c]))
       IN  /\ apiPage' = [apiPage EXCEPT ![c] = request[c]]
           /\ apiResult' = [apiResult EXCEPT ![c] = value]
           /\ IF Failed(value)
              THEN /\ ret' = [ret EXCEPT ![c] = JsArray(<<>>)]
                   /\ pc' = [pc EXCEPT ![c] = "return"]
                   /\ UNCHANGED <<counter, frames, request, fetched>>
              ELSE IF Cutoff(value, fromDate[c])
              THEN /\ ret' = [ret EXCEPT ![c] = value]
                   /\ pc' = [pc EXCEPT ![c] = "return"]
                   /\ UNCHANGED <<counter, frames, request, fetched>>
              ELSE IF NextPage(value)
              THEN /\ counter' = [counter EXCEPT !.reposParams.page = @ + 1]
                   /\ frames' = [frames EXCEPT ![c] = Append(@, value.items)]
                   /\ request' = [request EXCEPT ![c] = counter'.reposParams.page]
                   /\ fetched' = [fetched EXCEPT ![c] =
                                     Append(@, counter'.reposParams.page)]
                   /\ UNCHANGED <<ret, pc>>
              ELSE /\ ret' = [ret EXCEPT ![c] = value]
                   /\ pc' = [pc EXCEPT ![c] = "return"]
                   /\ UNCHANGED <<counter, frames, request, fetched>>
    /\ UNCHANGED <<options, platform, fromDate, repos, i, usersProjectsCount,
                   usersCommitsCount, result, counted>>

\* variant: the repos of the later pages replace the ones held
ConcatDropHeld(held, newRepos) == newRepos

\* variant: the later pages are put in front
ConcatReversed(held, newRepos) == newRepos \o held

\* variant: an empty continuation empties the whole result
ConcatAbortOnEmpty(held, newRepos) == IF newRepos = <<>> THEN <<>> ELSE held \o newRepos

\* line 141: repos.concat(newRepos)
Concat(held, newRepos) == held \o newRepos

\* variant: a resuming frame takes its page++ back
GetReposReturnResetting(c) ==
    /\ pc[c] = "return"
    /\ frames[c] # <<>>
    /\ ret' = [ret EXCEPT ![c] =
                  JsArray(Concat(frames[c][Len(frames[c])], ret[c].items))]
    /\ frames' = [frames EXCEPT ![c] = SubSeq(@, 1, Len(@) - 1)]
    /\ counter' = [counter EXCEPT !.reposParams.page = @ - 1]
    /\ UNCHANGED <<options, platform, pc, request, fromDate, repos, i,
                   usersProjectsCount, usersCommitsCount, result, fetched,
                   counted, apiPage, apiResult>>

\* a suspended getRepos frame resumes with the repos of the later pages
GetReposReturn(c) ==
    /\ pc[c] = "return"
    /\ frames[c] # <<>>
    /\ ret' = [ret EXCEPT ![c] =
                  JsArray(Concat(frames[c][Len(frames[c])], ret[c].items))]
    /\ frames' = [frames EXCEPT ![c] = SubSeq(@, 1, Len(@) - 1)]
    /\ UNCHANGED <<options, counter, platform, pc, request, fromDate, repos, i,
                   usersProjectsCount, usersCommitsCount, result, fetched,
                   counted, apiPage, apiResult>>

\* the object get() returns
Totals(projects, commits) == [projects |-> projects, commits |-> commits]

\* the outermost getRepos returned: get() resumes, sets its counters and
\* enters its loop, up to the first strategy call or to its return
GetAllReposResolved(c) ==
    /\ pc[c] = "return"
    /\ frames[c] = <<>>
    /\ repos' = [repos EXCEPT ![c] = ret[c]]
    /\ usersProjectsCount' = [usersProjectsCount EXCEPT ![c] = 0]
    /\ usersCommitsCount' = [usersCommitsCount EXCEPT ![c] = 0]
    /\ i' = [i EXCEPT ![c] = 0]
    /\ IF 0 < Length(ret[c])
       THEN /\ counted' = [counted EXCEPT ![c] = Append(@, ret[c].items[1])]
            /\ pc' = [pc EXCEPT ![c] = "count"]
            /\ UNCHANGED result
       ELSE /\ result' = [result EXCEPT ![c] = <<Totals(0, 0)>>]
            /\ pc' = [pc EXCEPT ![c] = "done"]
            /\ UNCHANGED counted
    /\ UNCHANGED <<options, counter, platform, request, fromDate, frames, ret,
                   fetched, apiPage, apiResult>>

\* variant: the comparison with minCommits is turned round
IsProjectAtMost(repoCommitsCount) == repoCommitsCount <= counter.minCommits.n

\* variant: every repo with commits is a project
IsProjectIgnoringMin(repoCommitsCount) == TRUE

\* line 173
IsProject(repoCommitsCount) == repoCommitsCount >= counter.minCommits.n

\* the strategy's promise for repos[i] settles: the loop body runs, then the
\* loop goes on to the next strategy call or get() returns
StrategySettled(c) ==
    /\ pc[c] = "count"
    /\ LET outcome == StrategyOutcome(repos[c].items[i[c] + 1])
           repoCommitsCount == outcome.count
           projects == IF repoCommitsCount > 0 /\ IsProject(repoCommitsCount)
                       THEN usersProjectsCount[c] + 1
                       ELSE usersProjectsCount[c]
           commits == IF repoCommitsCount > 0
                      THEN usersCommitsCount[c] + repoCommitsCount
                      ELSE usersCommitsCount[c]
       IN  IF outcome.rejects
           THEN /\ pc' = [pc EXCEPT ![c] = "raised"]
                /\ UNCHANGED <<i, usersProjectsCount, usersCommitsCount, result,
                               counted>>
           ELSE /\ usersProjectsCount' = [usersProjectsCount EXCEPT ![c] = projects]
                /\ usersCommitsCount' = [usersCommitsCount EXCEPT ![c] = commits]
                /\ i' = [i EXCEPT ![c] = @ + 1]
                /\ IF i[c] + 1 < Length(repos[c])
                   THEN /\ counted' = [counted EXCEPT ![c] =
                                          Append(@, repos[c].items[i[c] + 2])]
                        /\ UNCHANGED <<pc, result>>
                   ELSE /\ result' = [result EXCEPT ![c] =
                                         <<Totals(projects, commits)>>]
                        /\ pc' = [pc EXCEPT ![c] = "done"]
                        /\ UNCHANGED counted
    /\ UNCHANGED <<options, counter, platform, request, fromDate, frames, ret,
                   repos, fetched, apiPage, apiResult>>

Next ==
    \E c \in Calls :
        \/ Get(c)
        \/ GetReposSettled(c)
        \/ GetReposReturn(c)
        \/ GetAllReposResolved(c)
        \/ StrategySettled(c)

Spec == Init /\ [][Next]_vars

---------------------------------------------------------------------------
(* Vocabulary of the properties *)

\* the commit count the strategy answers for a repo
CommitsOf(repo) == StrategyOutcome(repo).count

RECURSIVE SumPositiveBetween(_, _, _)
\* the sum of the positive commit counts of s[lo], ..., s[hi], by halves
SumPositiveBetween(s, lo, hi) ==
    IF lo > hi THEN 0
    ELSE IF lo = hi THEN (IF CommitsOf(s[lo]) > 0 THEN CommitsOf(s[lo]) ELSE 0)
    ELSE LET mid == (lo + hi) \div 2
         IN  SumPositiveBetween(s, lo, mid) + SumPositiveBetween(s, mid + 1, hi)

\* the sum of the positive commit counts of s[j], s[j+1], ...
SumPositive(s, j) == SumPositiveBetween(s, j, Len(s))

\* the number of repos of s with a positive count of at least min
NumProjects(s, min) ==
    Cardinality({k \in 1..Len(s) : CommitsOf(s[k]) > 0 /\ CommitsOf(s[k]) >= min})

\* the platform lists exactly three repos, with commit counts a, b and d
ListsCounts(a, b, d) ==
    /\ platform.size = 3
    /\ CommitsOf(1) = a /\ CommitsOf(2) = b /\ CommitsOf(3) = d
    /\ \A r \in 1..3 : ~StrategyOutcome(r).rejects

\* the index (1 = first) of the page call c requested first
FirstIndex(c) == fetched[c][1] - FirstPage + 1

\* getRepos of call c has returned to get()
Listed(c) == pc[c] \in {"count", "done", "raised"}

\* get() of call c has just returned: no later call has started
Returned(c) == pc[c] = "done" /\ \A d \in Calls : d > c => pc[d] = "idle"

\* the repos lo, lo + 1, ..., hi in listing order
IdsFrom(lo, hi) == IF lo <= hi THEN [j \in 1..(hi - lo + 1) |-> lo + j - 1] ELSE <<>>

\* the number of full pages the platform's listing holds
FullPages == platform.size \div DefaultItemsPerPage

\* the first repo of the platform's k-th page
FirstOfPage(k) == (k - 1) * DefaultItemsPerPage + 1

Max(a, b) == IF a > b THEN a ELSE b

\* the j-th request of call c asked for the page after the one before it
Consecutive(c) ==
    \A j \in 2..Len(fetched[c]) : fetched[c][j] = fetched[c][j - 1] + 1

\* call c has requested exactly the pages with indices k0 .. k1
FetchedIndices(c, k0, k1) ==
    /\ Len(fetched[c]) = k1 - k0 + 1
    /\ fetched[c][1] = FirstPage + k0 - 1
    /\ Consecutive(c)

\* the outermost getRepos of call c is returning ret[c]
AtReturn(c) == pc[c] = "return" /\ frames[c] = <<>>

\* every request of call c has settled and getRepos is returning or returned
Settled(c) == pc[c] \in {"return", "count", "done", "raised"}

\* this.fromDate is empty or whitespace only
BlankFromDate == counter.fromDate.s \in {"", " "}

\* the number of repos of the platform's k-th page, Len(ListingPage(k))
PageLen(k) ==
    IF k >= 1
    THEN Max(0, Min(k * DefaultItemsPerPage, platform.size) - (k - 1) * DefaultItemsPerPage)
    ELSE 0

\* the platform's k-th page is not empty and its last repo was last updated
\* strictly before this.fromDate
EndsBeforeFromDate(k) ==
    /\ PageLen(k) > 0
    /\ DateParse(RepoUpdated(Min(k * DefaultItemsPerPage, platform.size)))
          < DateParse(counter.fromDate.s)

---------------------------------------------------------------------------
(* Properties *)

\* C1: when get() returns, commits is the sum of the positive per-repo
\* counts of the listed repos and projects the number of repos whose count
\* is positive and at least minCommits; counts [0,5,2] with minCommits 3
\* give projects 1 and commits 7, counts [0,0] give 0 and 0.
C1_Totals ==
    \A c \in Calls :
        Returned(c) =>
            /\ result[c] = <<[projects |-> NumProjects(repos[c].items, counter.minCommits.n),
                              commits |-> SumPositive(repos[c].items, 1)]>>
            /\ (c = 1 /\ ListsCounts(0, 5, 2) /\ counter.minCommits.n = 3)
                  => result[c] = <<[projects |-> 1, commits |-> 7]>>
            /\ (c = 1 /\ platform.size = 2 /\ CommitsOf(1) = 0 /\ CommitsOf(2) = 0)
                  => result[c] = <<[projects |-> 0, commits |-> 0]>>

C1_Witness ==
    /\ pc[1] = "done"
    /\ ListsCounts(0, 5, 2)
    /\ counter.minCommits.n = 3
    /\ Len(counted[1]) = 3
    /\ result[1] = <<[projects |-> 1, commits |-> 7]>>

\* C2: two get() calls in succession on the same counter, against a
\* platform that answers the same page and the same repo identically,
\* return identical results.
C2_Idempotent ==
    (pc[1] = "done" /\ pc[2] = "done") => result[1] = result[2]

\* C3: get() never raises: whatever the fetches and the strategy calls do,
\* it returns a record of two non-negative integers.
C3_NeverRaises ==
    \A c \in Calls :
        /\ pc[c] # "raised"
        /\ pc[c] = "done" =>
              /\ Len(result[c]) = 1
              /\ result[c][1].projects \in Nat
              /\ result[c][1].commits \in Nat

\* C4: when the first fetch of a get() call fails, getRepos returns an
\* empty array after exactly one fetch, the strategy is never invoked and
\* get() returns {projects: 0, commits: 0}.
C4_FirstFetchFails ==
    \A c \in Calls :
        (pc[c] \notin {"idle", "fetch"} /\ platform.faultPage = FirstIndex(c)) =>
            /\ Len(fetched[c]) = 1
            /\ counted[c] = <<>>
            /\ frames[c] = <<>>
            /\ pc[c] \in {"return", "done"}
            /\ ret[c] = JsArray(<<>>)
            /\ pc[c] = "done" =>
                  /\ repos[c] = JsArray(<<>>)
                  /\ result[c] = <<[projects |-> 0, commits |-> 0]>>

C4_Witness ==
    /\ pc[1] = "done"
    /\ platform.faultPage = 1
    /\ platform.size > DefaultItemsPerPage
    /\ fetched[1] = <<FirstPage>>
    /\ result[1] = <<[projects |-> 0, commits |-> 0]>>

\* C5: with a blank fromDate and no failing fetch the lister requests
\* consecutive pages up to the first page whose length is not 100 and
\* returns all the repos of those pages: one fetch more than the full pages
\* before it; 237 repos after 3 fetches for pages of 100, 100 and 37, and a
\* last fetch of an empty page for a listing of a multiple of 100.
C5_NoEarlyTermination ==
    \A c \in Calls :
        (Settled(c) /\ BlankFromDate /\ platform.faultPage = 0) =>
            LET k0 == FirstIndex(c)
                stop == Max(k0, FullPages + 1)
            IN  /\ FetchedIndices(c, k0, stop)
                /\ AtReturn(c) => ret[c] = JsArray(IdsFrom(FirstOfPage(k0), platform.size))
                /\ (c = 1 /\ platform.size = 237 /\ Listed(c)) =>
                      Len(fetched[c]) = 3 /\ Length(repos[c]) = 237
                /\ (c = 1 /\ platform.size % DefaultItemsPerPage = 0) =>
                      /\ Len(fetched[c]) = FullPages + 1
                      /\ apiResult[c] = JsArray(<<>>)

C5_Witness ==
    /\ pc[1] = "done"
    /\ counter.fromDate.s = " "
    /\ platform.size = 237
    /\ platform.lastUpdated[1] = Oldest
    /\ fetched[1] = <<1, 2, 3>>
    /\ Length(repos[1]) = 237

\* C6: with a fromDate and no failing fetch, a page whose last repo is dated
\* strictly before fromDate is the last page requested, and the lister
\* returns every repo of the pages requested, that page whole; a full page
\* whose last repo is dated fromDate or later is followed by a further
\* request, whatever the dates of its other repos.
C6_DateCutoff ==
    \A c \in Calls :
        (pc[c] # "idle" /\ ~BlankFromDate /\ platform.faultPage = 0) =>
            LET k0 == FirstIndex(c)
                kl == k0 + Len(fetched[c]) - 1
            IN  /\ Consecutive(c)
                /\ \A k \in k0..(kl - 1) : ~EndsBeforeFromDate(k)
                /\ Settled(c) =>
                      (PageLen(kl) = DefaultItemsPerPage => EndsBeforeFromDate(kl))
                /\ AtReturn(c) =>
                      ret[c] = JsArray(IdsFrom(FirstOfPage(k0),
                                               Min(kl * DefaultItemsPerPage, platform.size)))

C6_Witness ==
    /\ pc[1] = "done"
    /\ counter.fromDate.s = "2019-06-01"
    /\ platform.size = 237
    /\ platform.innerUpdated = Oldest
    /\ platform.lastUpdated[1] = "2019-06-01"
    /\ platform.lastUpdated[2] = Oldest
    /\ fetched[1] = <<1, 2>>
    /\ Length(repos[1]) = 200

\* C7: when the requests of k >= 1 full pages succeed without a cutoff and
\* the next request fails, getRepos returns exactly the repos of those k
\* pages and requests nothing after the failed request.
C7_PartialFailure ==
    \A c \in Calls :
        (/\ Settled(c)
         /\ platform.faultPage > FirstIndex(c)
         /\ platform.faultPage <= FullPages + 1
         /\ \/ BlankFromDate
            \/ \A k \in FirstIndex(c)..(platform.faultPage - 1) : ~EndsBeforeFromDate(k)) =>
            LET k0 == FirstIndex(c)
                kf == platform.faultPage
            IN  /\ FetchedIndices(c, k0, kf)
                /\ AtReturn(c) =>
                      ret[c] = JsArray(IdsFrom(FirstOfPage(k0),
                                               (kf - 1) * DefaultItemsPerPage))
                /\ Listed(c) => Length(repos[c]) = (kf - k0) * DefaultItemsPerPage

C7_Witness ==
    /\ pc[1] = "done"
    /\ platform.size = 237
    /\ platform.faultPage = 3
    /\ platform.faultMode = "http"
    /\ fetched[1] = <<1, 2, 3>>
    /\ Length(repos[1]) = 200

\* C8: the pages a getRepos run requests are consecutive, starting at the
\* initial params.page, so none is requested twice; in the sequence it
\* returns the repos stand in listing order: page N before page N + 1 and
\* each page in its own order.
C8_PageOrdering ==
    \A c \in Calls :
        /\ Consecutive(c)
        /\ (c = 1 /\ fetched[c] # <<>>) => fetched[c][1] = FirstPage
        /\ pc[c] = "return" =>
              \A j \in 1..(Len(ret[c].items) - 1) : ret[c].items[j] < ret[c].items[j + 1]

C8_Witness ==
    /\ AtReturn(1)
    /\ fetched[1] = <<1, 2, 3>>
    /\ Length(ret[1]) = 237
    /\ ret[1].items[100] = 100 /\ ret[1].items[101] = 101

\* C9: getFromAPI always returns a value: false when the transport fails or
\* answers outside 2xx, false when the body is null or empty, and the body
\* itself otherwise; get() never rejects because of a request.
C9_Accessor ==
    \A c \in Calls :
        /\ apiPage[c] # 0 =>
              LET settled == Transport(apiPage[c])
              IN  /\ ~settled.ok => apiResult[c] = JsFalse
                  /\ (settled.ok /\ settled.data.kind = "null") => apiResult[c] = JsFalse
                  /\ (settled.ok /\ settled.data = JsString("")) => apiResult[c] = JsFalse
                  /\ (settled.ok /\ settled.data.kind = "array") =>
                        apiResult[c] = settled.data
        /\ pc[c] = "raised" => counted[c] # <<>>

C9_Witness ==
    /\ pc[1] = "done"
    /\ platform.faultMode = "null"
    /\ platform.faultPage = 2
    /\ apiPage[1] = 2
    /\ apiResult[1] = JsFalse

\* the kinds of value whose typeof equals that of the default of option k
AcceptedKinds(k) ==
    CASE k \in {"username", "accessToken", "fromDate", "untilDate"} -> {"string"}
      [] k = "minCommits" -> {"number"}
      [] k \in {"userEmailAddresses", "userNames"} -> {"array", "object", "null"}

\* C10: the constructor never fails; the instance holds every default
\* option, with the user's value exactly when the user's object has the key
\* and the value's typeof is that of the default, and the default
\* otherwise; keys that are no default option change nothing: the general
\* settings keep their fixed values and no other field appears.
C10_Resolution ==
    /\ counter = NotConstructed => ENABLED Constructor
    /\ counter # NotConstructed =>
          /\ \A k \in DOMAIN getDefaultOptions :
                /\ k \in DOMAIN counter
                /\ counter[k] =
                      IF k \in DOMAIN options /\ options[k].kind \in AcceptedKinds(k)
                      THEN options[k]
                      ELSE getDefaultOptions[k]
          /\ DOMAIN counter =
                DOMAIN getDefaultOptions
                    \cup {"itemsPerPage", "reposEndpoint", "reposParams",
                          "repoUpdatedDateField"}
          /\ counter.itemsPerPage = JsNumber(100)
          /\ counter.reposEndpoint = JsString("")
          /\ DOMAIN counter.reposParams = {}
          /\ counter.repoUpdatedDateField = JsString("")

C10_Witness ==
    /\ counter # NotConstructed
    /\ DOMAIN options = {"itemsPerPage", "minCommits"}
    /\ options.itemsPerPage = JsNumber(5)
    /\ options.minCommits = JsString("2019-06-01")
    /\ counter.itemsPerPage = JsNumber(100)
    /\ counter.minCommits = JsNumber(1)

\* C11: for every user options object, the minCommits the constructor
\* resolves is a positive integer.
C11_MinCommitsPositive ==
    counter # NotConstructed =>
        /\ counter.minCommits.kind = "number"
        /\ counter.minCommits.n \in Nat \ {0}

---------------------------------------------------------------------------
(* Overlapping get() calls on one counter *)

\* a few listing sizes: empty, short, one full page, a full page and a tail
FewSizes == {0, 37, DefaultItemsPerPage, DefaultItemsPerPage + 37}

InitOverlap ==
    /\ options = [minCommits |-> JsNumber(2)]
    /\ \E size \in FewSizes :
          platform = [size |-> size, outcomes |-> PatternOutcomes,
                      lastUpdated |-> AllNewest, innerUpdated |-> Newest,
                      faultPage |-> 0, faultMode |-> "network"]
    /\ counter = Specialised(BaseCounter(options))
    /\ IdleCalls

\* get() is called while no other call on the counter has finished: the
\* caller does not await the earlier call
GetOverlapping(c) ==
    /\ pc[c] = "idle"
    /\ counter # NotConstructed
    /\ \A d \in Calls \ {c} : pc[d] \notin {"done", "raised"}
    /\ fromDate' = [fromDate EXCEPT ![c] = FromDateObj(c)]
    /\ request' = [request EXCEPT ![c] = counter.reposParams.page]
    /\ fetched' = [fetched EXCEPT ![c] = Append(@, counter.reposParams.page)]
    /\ pc' = [pc EXCEPT ![c] = "fetch"]
    /\ UNCHANGED <<options, counter, platform, frames, ret, repos, i,
                   usersProjectsCount, usersCommitsCount, result, counted,
                   apiPage, apiResult>>

NextOverlap ==
    \E c \in Calls :
        \/ GetOverlapping(c)
        \/ GetReposSettled(c)
        \/ GetReposReturn(c)
        \/ GetAllReposResolved(c)
        \/ StrategySettled(c)

SpecOverlap == InitOverlap /\ [][NextOverlap]_vars

\* the repos of the platform's whole listing, in listing order
WholeListing == IdsFrom(1, platform.size)

\* C12: of two get() calls that overlap on one counter, each requests the
\* pages and returns the repos and the totals it would alone: the pages
\* from the first one up to the first page that is not full, every repo of
\* the listing, and the totals of those repos.
C12_Independent ==
    \A c \in Calls :
        Settled(c) =>
            /\ FetchedIndices(c, 1, FullPages + 1)
            /\ Listed(c) => repos[c] = JsArray(WholeListing)
            /\ pc[c] = "done" =>
                  result[c] = <<Totals(NumProjects(WholeListing, counter.minCommits.n),
                                       SumPositive(WholeListing, 1))>>

---------------------------------------------------------------------------
(* Completeness of the lister *)

\* the platform lists its repos in descending order of last-updated date
Descending ==
    \A r \in 1..(platform.size - 1) :
        DateParse(RepoUpdated(r)) >= DateParse(RepoUpdated(r + 1))

\* the repo was last updated on this.fromDate or later
InRange(repo) ==
    BlankFromDate \/ DateParse(RepoUpdated(repo)) >= DateParse(counter.fromDate.s)

\* 237 repos not in descending order: the first page ends on the oldest
\* date, every other repo has the newest date
UnsortedListing ==
    /\ platform.size = 2 * DefaultItemsPerPage + 37
    /\ platform.innerUpdated = Newest
    /\ platform.lastUpdated[1] = Oldest
    /\ platform.lastUpdated[2] = Newest
    /\ platform.lastUpdated[3] = Newest

\* C13: when the platform lists its repos in descending order of
\* last-updated date and no fetch fails, every repo from the first requested
\* page on that was updated on fromDate or later is among the repos getRepos
\* returns; against a listing that is not in descending order getRepos
\* leaves out such a repo: of the unsorted 237 it returns the first page
\* only, without the repos 101..237 updated after fromDate.
C13_Completeness ==
    \A c \in Calls :
        (AtReturn(c) /\ platform.faultPage = 0) =>
            LET returned == {ret[c].items[j] : j \in 1..Length(ret[c])}
            IN  /\ Descending =>
                      \A r \in FirstOfPage(FirstIndex(c))..platform.size :
                          InRange(r) => r \in returned
                /\ (c = 1 /\ UnsortedListing /\ counter.fromDate.s = "2019-06-01") =>
                      /\ ~Descending
                      /\ returned = 1..DefaultItemsPerPage
                      /\ \A r \in (DefaultItemsPerPage + 1)..platform.size : InRange(r)

C13_Witness ==
    /\ AtReturn(1)
    /\ Descending
    /\ counter.fromDate.s = "2019-06-01"
    /\ platform.size = 2 * DefaultItemsPerPage
    /\ platform.innerUpdated = Newest
    /\ platform.lastUpdated[2] = Oldest
    /\ fetched[1] = <<1, 2>>
    /\ Length(ret[1]) = 2 * DefaultItemsPerPage
    /\ InRange(1) /\ ~InRange(2 * DefaultItemsPerPage)

---------------------------------------------------------------------------
(* Termination of the lister *)

\* a listing that has a full page of the newest repos for every page a run
\* can request
EndlessSize == (MaxPage + 1) * DefaultItemsPerPage

\* the endpoint answers every request with a full page
Endless == platform.size = EndlessSize

InitLive ==
    /\ \E f \in {"", "2019-06-01"} : options = [fromDate |-> JsString(f)]
    /\ \/ \E size \in FewSizes :
          \E k \in 0..2 :
          \E mode \in {"http", "null"} :
             platform = [size |-> size, outcomes |-> PatternOutcomes,
                         lastUpdated |-> [p \in 1..(MaxFull + 1) |-> Oldest],
                         innerUpdated |-> Newest,
                         faultPage |-> k, faultMode |-> mode]
       \/ platform = [size |-> EndlessSize, outcomes |-> PatternOutcomes,
                      lastUpdated |-> [p \in 1..(MaxPage + 1) |-> Newest],
                      innerUpdated |-> Newest,
                      faultPage |-> 0, faultMode |-> "network"]
    /\ counter = Specialised(BaseCounter(options))
    /\ IdleCalls

\* the request settles, for the pages up to MaxPage
GetReposSettledCapped(c) ==
    /\ request[c] < MaxPage
    /\ GetReposSettled(c)

NextLive ==
    \E c \in Calls :
        \/ Get(c)
        \/ GetReposSettledCapped(c)
        \/ GetReposReturn(c)
        \/ GetAllReposResolved(c)
        \/ StrategySettled(c)

\* every request settles and every continuation whose promise has settled
\* is run
SpecLive == InitLive /\ [][NextLive]_vars /\ WF_vars(NextLive)

\* C14: a getRepos run whose requests meet a failed fetch, a page of a
\* length other than itemsPerPage or a cutoff page eventually returns; a
\* run against an endpoint that answers every request with a full page and
\* no cutoff never returns: no page cap ends it.
C14_Termination ==
    /\ \A c \in Calls : (pc[c] = "fetch" /\ ~Endless) ~> Listed(c)
    /\ [](Endless => \A c \in Calls : ~Settled(c))

C14_Witness ==
    /\ Endless
    /\ pc[1] = "fetch"
    /\ Len(fetched[1]) = MaxPage
    /\ Len(frames[1]) = MaxPage - 1
    /\ counter.reposParams.page = FirstPage + MaxPage - 1

---------------------------------------------------------------------------
(* The aggregation loop *)

\* C15: get() calls the strategy for the listed repos in listing order,
\* once each, and not before getRepos has returned the whole listing; call
\* i + 1 starts when call i has completed, so at most one call is in flight:
\* the one for repos[i] while get() is in its loop, none once it returned.
C15_Sequential ==
    \A c \in Calls :
        /\ ~Listed(c) => counted[c] = <<>>
        /\ Listed(c) =>
              /\ Len(counted[c]) <= Length(repos[c])
              /\ counted[c] = SubSeq(repos[c].items, 1, Len(counted[c]))
        /\ pc[c] \in {"count", "raised"} => Len(counted[c]) = i[c] + 1
        /\ pc[c] = "done" =>
              /\ i[c] = Length(repos[c])
              /\ counted[c] = repos[c].items

C15_Witness ==
    /\ pc[1] = "count"
    /\ fetched[1] = <<1, 2, 3>>
    /\ Length(repos[1]) = 2 * DefaultItemsPerPage + 37
    /\ i[1] = DefaultItemsPerPage
    /\ counted[1] = IdsFrom(1, DefaultItemsPerPage + 1)

---------------------------------------------------------------------------
(* The listing params *)

\* the requests of call c after its first one
FurtherFetches(c) == Max(0, Len(fetched[c]) - 1)

\* C16: getRepos changes nothing of the params but page, which it
\* increases by one for every request after the first one of a run; no
\* other field of the params or of the counter changes, and the page is
\* not set back: when a run returns, page is the page of its first request
\* plus the number of its requests, less one.
C16_ParamsFrame ==
    /\ [counter EXCEPT !.reposParams.page = FirstPage] = Specialised(BaseCounter(options))
    /\ counter.reposParams.page = FirstPage + FurtherFetches(1) + FurtherFetches(2)
    /\ \A c \in Calls :
          (Settled(c) /\ \A d \in Calls : d > c => pc[d] = "idle") =>
              counter.reposParams.page = fetched[c][1] + Len(fetched[c]) - 1

C16_Witness ==
    /\ pc[1] = "done"
    /\ fetched[1] = <<1, 2, 3>>
    /\ pc[2] = "fetch"
    /\ fetched[2] = <<3>>
    /\ counter.reposParams = [page |-> 3, sort |-> "updated"]

---------------------------------------------------------------------------
(* No filtering by the lister *)

RECURSIVE PagesConcat(_, _)
\* the repos of the pages call c requested, from its j-th request on, in
\* the order of the requests; a failed request gives no repos
PagesConcat(c, j) ==
    IF j > Len(fetched[c]) THEN <<>>
    ELSE LET k == fetched[c][j] - FirstPage + 1
         IN  (IF platform.faultPage = k THEN <<>> ELSE ListingPage(k))
                \o PagesConcat(c, j + 1)

\* C17: the lister neither filters nor reorders: what getRepos returns is
\* the concatenation, in request order, of the pages it fetched, each whole,
\* so the repos of a cutoff page that are older than fromDate are returned
\* too, and get() adds their positive counts to commits and counts them as
\* projects like any other repo.
C17_NoFiltering ==
    \A c \in Calls :
        /\ AtReturn(c) => ret[c] = JsArray(PagesConcat(c, 1))
        /\ Returned(c) =>
              /\ repos[c] = JsArray(PagesConcat(c, 1))
              /\ result[c] = <<Totals(NumProjects(PagesConcat(c, 1), counter.minCommits.n),
                                      SumPositive(PagesConcat(c, 1), 1))>>

\* the first page of 237 repos holds old repos only and is returned whole
C17_Witness ==
    /\ pc[1] = "done"
    /\ counter.fromDate.s = "2019-06-01"
    /\ platform.size = 2 * DefaultItemsPerPage + 37
    /\ platform.innerUpdated = Oldest
    /\ platform.lastUpdated[1] = Oldest
    /\ fetched[1] = <<1>>
    /\ repos[1] = JsArray(IdsFrom(1, DefaultItemsPerPage))
    /\ result[1] = <<Totals(DefaultItemsPerPage, 199)>>

---------------------------------------------------------------------------
(* The running totals *)

\* the repos among the first n listed to call c that have a positive count
PositiveProcessed(c, n) == {k \in 1..n : CommitsOf(repos[c].items[k]) > 0}

\* get() of call c is in its loop, or has this moment left it: call c is
\* the latest call started
InLoop(c) == Listed(c) /\ \A d \in Calls : d > c => pc[d] = "idle"

\* the totals of call c are within their bounds
TotalsInBounds(c) ==
    LET projects == usersProjectsCount[c]
        commits == usersCommitsCount[c]
    IN  /\ ~Listed(c) => projects = 0 /\ commits = 0
        /\ InLoop(c) =>
              /\ 0 <= projects
              /\ projects <= Cardinality(PositiveProcessed(c, i[c]))
              /\ commits >= projects * counter.minCommits.n
        /\ pc[c] = "done" =>
              /\ result[c] = <<Totals(projects, commits)>>
              /\ result[c][1].projects > 0 => result[c][1].commits > 0

\* a step decreases neither total of call c
TotalsGrow(c) ==
    /\ usersProjectsCount'[c] >= usersProjectsCount[c]
    /\ usersCommitsCount'[c] >= usersCommitsCount[c]

\* C18: with counts that are not negative and minCommits >= 1 the totals
\* of a get() call start from 0, never decrease, and at every point of the
\* loop projects is at least 0 and at most the number of repos processed
\* that have a positive count, and commits is at least projects times
\* minCommits; so a returned projects > 0 comes with commits > 0.
C18_LoopInvariant ==
    /\ [](counter.minCommits.n >= 1 => \A c \in Calls : TotalsInBounds(c))
    /\ [][\A c \in Calls : TotalsGrow(c)]_vars

C18_Witness ==
    /\ pc[1] = "count"
    /\ ListsCounts(0, 5, 2)
    /\ counter.minCommits.n = 3
    /\ i[1] = 2
    /\ usersProjectsCount[1] = 1
    /\ usersCommitsCount[1] = 5

============================================================================
